---- MODULE Spec2Model ----
(***************************************************************************)
(* Model of ti7.py: a threat-actor targeting tool.  Two feeds are fetched  *)
(* and normalised, the records are deduplicated by identity, an operator   *)
(* picks industry and country keywords, analyze_actor_targeting aggregates *)
(* per-actor statistics (consulting extract_matching_keywords and the      *)
(* cached get_actor_ttps), and display_potential_actors ranks the actors.  *)
(*                                                                         *)
(* A Python str is modelled as a sequence of one-character strings, so     *)
(* that lower(), f-string formatting and regular-expression search are     *)
(* computed and not assumed.  A datetime is a positive integer (a larger   *)
(* number is a later instant).                                             *)
(***************************************************************************)
EXTENDS Integers, Sequences, FiniteSets, TLC

VARIABLES
    pc,                          \* position of the run in __main__ / in the called function
    ATTACKCTI_AVAILABLE,         \* module flag set by the import block
    attack_client,               \* the global client handle: "client" or "None"
    ttp_cache,                   \* dict: lowercased actor name -> ttp_dict
    kb_queries,                  \* log of the queries put to the knowledge base: the name
                                 \* asked about and whether the query failed
    actor_name,                  \* argument of the last get_actor_ttps call
    ttps_ret,                    \* value returned by the last get_actor_ttps call
    text,                        \* argument of extract_matching_keywords
    keyword_list,                \* argument of extract_matching_keywords
    found,                       \* value returned by extract_matching_keywords
    rss_entries,
    api_entries,
    all_raw_entries,
    raw_pos,                     \* number of raw entries the deduplication loop has consumed
    combined_entries,            \* insertion-ordered dict: sequence of [key, entry]
    deduplicated_list,           \* list(combined_entries.values()); `entries` inside the analysis
    selected_industry_keywords,
    selected_country_keywords,
    entry_pos,                   \* number of entries the analysis loop has consumed
    processed_actors,
    actor_stats,                 \* insertion-ordered dict: sequence of per-actor records
    actor_analysis_results,
    report                       \* what display_potential_actors emits

vars == <<pc, ATTACKCTI_AVAILABLE, attack_client, ttp_cache, kb_queries, actor_name,
          ttps_ret, text, keyword_list, found, rss_entries, api_entries, all_raw_entries,
          raw_pos, combined_entries, deduplicated_list, selected_industry_keywords,
          selected_country_keywords, entry_pos, processed_actors, actor_stats,
          actor_analysis_results, report>>

-----------------------------------------------------------------------------
(* Bounds of the model *)

MaxTextLen == 4
MaxKeywords == 2
MaxDate == 2
MaxRaw == 3
MaxQueries == 4
MaxEntries == 3
MaxActors == 11
MaxVaried == 2
MaxFetched == 1
MaxHitEntries == 4

-----------------------------------------------------------------------------
(* Python values *)

\* None, kept apart from every str (a str never holds this token)
NoneVal == <<"<None>">>

\* the falsy / truthy test Python applies to a str or None
Truthy(x) == x # NoneVal /\ x # <<>>

\* str(x) as an f-string formats it
Str(x) == IF x = NoneVal THEN <<"N", "o", "n", "e">> ELSE x

UpperChars == <<"A", "B", "C", "D", "E", "F", "G", "H", "I", "J", "K", "L", "M",
                "N", "O", "P", "Q", "R", "S", "T", "U", "V", "W", "X", "Y", "Z">>

LowerChars == <<"a", "b", "c", "d", "e", "f", "g", "h", "i", "j", "k", "l", "m",
                "n", "o", "p", "q", "r", "s", "t", "u", "v", "w", "x", "y", "z">>

DigitChars == {"0", "1", "2", "3", "4", "5", "6", "7", "8", "9"}

UpperSet == {UpperChars[i] : i \in 1..Len(UpperChars)}

\* the lowercase letter of each uppercase letter
ToLower == [c \in UpperSet |-> LowerChars[CHOOSE i \in 1..Len(UpperChars) : UpperChars[i] = c]]

LowerChar(c) == IF c \in UpperSet THEN ToLower[c] ELSE c

\* str.lower()
Lower(s) == [i \in 1..Len(s) |-> LowerChar(s[i])]

\* the class \w of the re module
WordChars == UpperSet \cup {LowerChars[i] : i \in 1..Len(LowerChars)} \cup DigitChars \cup {"_"}

IsWordChar(c) == c \in WordChars

\* x in list
InSeq(x, s) == \E i \in 1..Len(s) : s[i] = x

-----------------------------------------------------------------------------
(* extract_matching_keywords *)

\* \b holds in front of position p (1-based; p = Len(t) + 1 is the end of t)
WordBoundary(t, p) ==
    LET before == p > 1 /\ IsWordChar(t[p - 1])
        after == p <= Len(t) /\ IsWordChar(t[p])
    IN before # after

\* the literal pattern pat occupies t[p .. p + Len(pat) - 1]
LiteralAt(pat, t, p) ==
    /\ p + Len(pat) - 1 <= Len(t)
    /\ \A j \in 1..Len(pat) : t[p + j - 1] = pat[j]

\* a search for the bare pattern, without the two \b
ReSearchWordBounded_NoBoundary(pat, t) ==
    \E p \in 1..(Len(t) + 1) : LiteralAt(pat, t, p)

\* re.search(r'\b' + re.escape(pat) + r'\b', t) finds a match
ReSearchWordBounded(pat, t) ==
    \E p \in 1..(Len(t) + 1) :
        /\ WordBoundary(t, p)
        /\ LiteralAt(pat, t, p)
        /\ WordBoundary(t, p + Len(pat))

\* the loop body for one keyword, found_so_far being the list built so far
MatchKeyword(found_so_far, keyword, text_lower) ==
    IF ReSearchWordBounded(Lower(keyword), text_lower) /\ ~InSeq(keyword, found_so_far)
    THEN Append(found_so_far, keyword)
    ELSE found_so_far

RECURSIVE MatchLoop(_, _, _, _)
MatchLoop(found_so_far, kws, k, text_lower) ==
    IF k > Len(kws) THEN found_so_far
    ELSE MatchLoop(MatchKeyword(found_so_far, kws[k], text_lower), kws, k + 1, text_lower)

extract_matching_keywords(t, kws) ==
    IF ~Truthy(t) \/ kws = <<>> \/ kws = NoneVal THEN <<>>
    ELSE MatchLoop(<<>>, kws, 1, Lower(t))

-----------------------------------------------------------------------------
(* Normalised records *)

\* a published_date that is None (parse_* returned None); datetimes are 1, 2, ...
NoDate == 0

DigitSeq == <<"0", "1", "2", "3", "4", "5", "6", "7", "8", "9">>

\* datetime.isoformat(): day d of January 2024
IsoFormat(d) == <<"2", "0", "2", "4", "-", "0", "1", "-", "0", DigitSeq[d + 1]>>

\* dict.get(key, default) on a record
Get(d, key, default) == IF key \in DOMAIN d THEN d[key] ELSE default

Unknown == <<"U", "n", "k", "n", "o", "w", "n">>

NoTitle == <<"N", "o", " ", "T", "i", "t", "l", "e">>

\* the dict both fetchers build (description and source are never read again)
Normalized(id, victim_name, actor, link, pub_date, description_clean) ==
    [id |-> id,
     victim |-> victim_name,
     threat_actor |-> actor,
     link |-> link,
     published_date |-> pub_date,
     published_date_iso |-> IF pub_date # NoDate THEN IsoFormat(pub_date) ELSE NoneVal,
     search_context |-> victim_name \o <<" ">> \o description_clean]

\* one feedparser entry -> normalised dict; `actor` and `description` stand for
\* the results of extract_threat_actor_rss and clean_html
NormalizeRss(entry) ==
    Normalized(Get(entry, "guid", Get(entry, "link", Get(entry, "title", NoneVal))),
               Get(entry, "title", NoTitle),
               entry.actor,
               Get(entry, "link", <<>>),
               entry.published_parsed,
               entry.description)

\* parse_iso_datetime: None for None, for '' and for a string that does not parse
parse_iso_datetime(date_string) ==
    IF ~Truthy(date_string) THEN NoDate
    ELSE IF \E d \in 1..9 : IsoFormat(d) = date_string
         THEN CHOOSE d \in 1..9 : IsoFormat(d) = date_string
         ELSE NoDate

\* one API item -> normalised dict
NormalizeApi(item) ==
    LET victim_name == Get(item, "post_title", Get(item, "victim", NoTitle))
        pub_date_str == Get(item, "discovered",
                            Get(item, "published", Get(item, "created_at", NoneVal)))
    IN Normalized(Get(item, "id", victim_name \o <<"_">> \o Str(pub_date_str)),
                  victim_name,
                  Get(item, "group_name", Get(item, "threat_actor", Unknown)),
                  Get(item, "post_url", Get(item, "url", Get(item, "link", <<>>))),
                  parse_iso_datetime(pub_date_str),
                  Get(item, "description", <<>>))

-----------------------------------------------------------------------------
(* Combine and deduplicate *)

\* values str(time.time()) can take
ClockValues == {<<"1", "7", ".", "0">>, <<"1", "7", ".", "5">>}

\* the key the deduplication loop files an entry under
Identity(entry, now) ==
    LET entry_id == Get(entry, "id", NoneVal)
    IN IF ~Truthy(entry_id)
       THEN LET date_part == Get(entry, "published_date_iso", now)
            IN Lower(Get(entry, "victim", <<>>)) \o <<"_">> \o Str(date_part)
       ELSE entry_id

\* key in dict
HasKey(d, k) == \E i \in 1..Len(d) : d[i].key = k

\* dict[key], for a key the dict holds
Lookup(d, k) == d[CHOOSE i \in 1..Len(d) : d[i].key = k].entry

\* a dict assignment that never overwrites: every assignment adds an item
DictSet_AlwaysAppend(d, k, v) == Append(d, [key |-> k, entry |-> v])

\* dict[key] = value: a held key keeps its place, a new key goes last
DictSet(d, k, v) ==
    IF HasKey(d, k)
    THEN [i \in 1..Len(d) |-> IF d[i].key = k THEN [key |-> k, entry |-> v] ELSE d[i]]
    ELSE Append(d, [key |-> k, entry |-> v])

\* list(dict.values())
Values(d) == [i \in 1..Len(d) |-> d[i].entry]

\* the condition with >= for >: an equally dated entry replaces the stored one
ShouldStore_OnTies(d, k, entry) ==
    \/ ~HasKey(d, k)
    \/ /\ HasKey(d, k)
       /\ Get(entry, "published_date", NoDate) # NoDate
       /\ Get(Lookup(d, k), "published_date", NoDate) # NoDate
       /\ entry.published_date >= Lookup(d, k).published_date

\* the condition with < for >: an older entry replaces the stored one
ShouldStore_Older(d, k, entry) ==
    \/ ~HasKey(d, k)
    \/ /\ HasKey(d, k)
       /\ Get(entry, "published_date", NoDate) # NoDate
       /\ Get(Lookup(d, k), "published_date", NoDate) # NoDate
       /\ entry.published_date < Lookup(d, k).published_date

\* the condition under which the loop assigns combined_entries[entry_id] = entry
ShouldStore(d, k, entry) ==
    \/ ~HasKey(d, k)
    \/ /\ HasKey(d, k)
       /\ Get(entry, "published_date", NoDate) # NoDate
       /\ Get(Lookup(d, k), "published_date", NoDate) # NoDate
       /\ entry.published_date > Lookup(d, k).published_date

\* one iteration of the loop
DedupEntry(d, entry, now) ==
    LET entry_id == Identity(entry, now)
    IN IF ShouldStore(d, entry_id, entry) THEN DictSet(d, entry_id, entry)
       ELSE IF ~HasKey(d, entry_id) THEN DictSet(d, entry_id, entry)
       ELSE d


-----------------------------------------------------------------------------
(* get_actor_ttps and its cache *)

\* getattr(tech, 'external_references', [{}])[0].get('external_id', 'N/A');
\* "IndexError" when the technique's list of references is empty
TechId(tech) ==
    LET refs == Get(tech, "external_references", <<[source_name |-> "none"]>>)
    IN IF refs = <<>> THEN "IndexError" ELSE Get(refs[1], "external_id", "N/A")

\* the loop that builds ttp_dict, from technique k on
RECURSIVE TtpDictLoop(_, _, _)
TtpDictLoop(ttp_dict, techniques, k) ==
    IF k > Len(techniques) THEN [raised |-> FALSE, ttp_dict |-> ttp_dict]
    ELSE IF TechId(techniques[k]) = "IndexError" THEN [raised |-> TRUE, ttp_dict |-> <<>>]
    ELSE LET tech_id == TechId(techniques[k])
             tech_name == Get(techniques[k], "name", "Unknown Technique Name")
         IN TtpDictLoop(IF tech_id # "N/A" THEN DictSet(ttp_dict, tech_id, tech_name)
                        ELSE ttp_dict,
                        techniques, k + 1)

\* the cache key written with the name as given, not lowercased
CacheKey_AsGiven(name) == name

\* actor_name_lower
CacheKey(name) == Lower(name)

\* an except branch that lets the exception leave the function
ExceptBranch_Propagates(cache, key, asked) ==
    [ret |-> <<>>, cache |-> cache, queries |-> asked, raised |-> TRUE]

\* except Exception: ttp_cache[actor_name_lower] = {}; return {}
ExceptBranch(cache, key, asked) ==
    [ret |-> <<>>, cache |-> DictSet(cache, key, <<>>), queries |-> asked, raised |-> FALSE]

\* get_actor_ttps(name) in the current state, the knowledge base answering resp
\* if it is asked: the value returned, the cache and the call log afterwards,
\* and whether an exception left the function
get_actor_ttps(name, resp) ==
    IF ~ATTACKCTI_AVAILABLE \/ ~Truthy(name) \/ name = Unknown \/ attack_client = "None"
    THEN [ret |-> <<>>, cache |-> ttp_cache, queries |-> kb_queries, raised |-> FALSE]
    ELSE IF HasKey(ttp_cache, Lower(name))
    THEN [ret |-> Lookup(ttp_cache, Lower(name)), cache |-> ttp_cache,
          queries |-> kb_queries, raised |-> FALSE]
    ELSE LET asked == Append(kb_queries, [name |-> name, failed |-> resp.kind = "error"])
             built == TtpDictLoop(<<>>, resp.techniques, 1)
         IN IF resp.kind = "error" \/ built.raised
            THEN ExceptBranch(ttp_cache, CacheKey(name), asked)
            ELSE IF resp.techniques = <<>>
            THEN [ret |-> <<>>, cache |-> DictSet(ttp_cache, CacheKey(name), <<>>),
                  queries |-> asked, raised |-> FALSE]
            ELSE [ret |-> built.ttp_dict,
                  cache |-> DictSet(ttp_cache, CacheKey(name), built.ttp_dict),
                  queries |-> asked, raised |-> FALSE]

-----------------------------------------------------------------------------
(* The knowledge base and the names it is asked about *)

Technique(id, name) == [external_references |-> <<[external_id |-> id]>>, name |-> name]

\* a technique whose first reference carries no external_id
TechniqueNoId == [external_references |-> <<[source_name |-> "capec"]>>, name |-> "Other"]

\* a technique with an empty list of references
TechniqueNoRefs == [external_references |-> <<>>, name |-> "Broken"]

\* what attack_client.get_techniques_used_by_group can do: raise, or return a list
KbResponses ==
    {[kind |-> "error", techniques |-> <<>>]}
    \cup {[kind |-> "ok", techniques |-> ts] :
            ts \in {<<>>,
                    <<Technique("T1486", "Data Encrypted for Impact")>>,
                    <<Technique("T1486", "Data Encrypted for Impact"), TechniqueNoId>>,
                    <<Technique("T1059", "Scripting"), TechniqueNoRefs>>}}

LockBit == <<"L", "o", "c", "k", "B", "i", "t">>

LockBitLower == <<"l", "o", "c", "k", "b", "i", "t">>

Akira == <<"A", "k", "i", "r", "a">>

\* names get_actor_ttps is called with
CallNames == {LockBit, LockBitLower, Akira, Unknown, <<>>, NoneVal}

-----------------------------------------------------------------------------
(* analyze_actor_targeting *)

\* ACTOR_ANALYSIS_WEIGHTS['industry_hit']
IndustryHitWeight == 2

\* ACTOR_ANALYSIS_WEIGHTS['country_hit']
CountryHitWeight == 3

\* datetime.min, the sort key of an entry without a published_date
DatetimeMin == 0

\* a > b for two equally long tuples of integers, as Python compares tuples
RECURSIVE TupleGreater(_, _)
TupleGreater(a, b) ==
    IF a = <<>> THEN FALSE
    ELSE IF Head(a) # Head(b) THEN Head(a) > Head(b)
    ELSE TupleGreater(Tail(a), Tail(b))

\* where a stable descending sort puts an item of key k into the sorted list:
\* behind every item whose key is not smaller
InsertPos(sorted, k) == Cardinality({i \in 1..Len(sorted) : ~TupleGreater(k, sorted[i].k)})

InsertDescending(sorted, item) ==
    LET n == InsertPos(sorted, item.k)
    IN SubSeq(sorted, 1, n) \o <<item>> \o SubSeq(sorted, n + 1, Len(sorted))

RECURSIVE SortLoop(_, _)
SortLoop(sorted, rest) ==
    IF rest = <<>> THEN sorted
    ELSE SortLoop(InsertDescending(sorted, Head(rest)), Tail(rest))

\* list.sort(key=..., reverse=True) on a list of [k |-> key tuple, v |-> element]:
\* descending by key, elements of equal key in their original order
SortDescending(keyed) == SortLoop(<<>>, keyed)

\* the sort key of the analysis: published_date or datetime.min
DateKey(entry) ==
    IF Get(entry, "published_date", NoDate) # NoDate THEN <<entry.published_date>>
    ELSE <<DatetimeMin>>

\* the entries left in the order they came in
SortEntries_Unsorted(entries) == entries

\* entries.sort(key=lambda x: x.get('published_date') or datetime.min, reverse=True)
SortEntries(entries) ==
    LET keyed == [i \in 1..Len(entries) |-> [k |-> DateKey(entries[i]), v |-> entries[i]]]
        sorted == SortDescending(keyed)
    IN [i \in 1..Len(sorted) |-> sorted[i].v]

\* the value the defaultdict makes for a new actor
NewStats(actor) ==
    [name |-> actor, total_hits |-> 0, industry_hits |-> 0, region_hits |-> 0,
     country_profile_hits |-> <<>>, country_hit_counts |-> <<>>, score |-> 0, ttps |-> <<>>]

HasActor(stats, actor) == \E i \in 1..Len(stats) : stats[i].name = actor

StatsOf(stats, actor) == stats[CHOOSE i \in 1..Len(stats) : stats[i].name = actor]

\* actor_stats[actor] = st, a new actor going last
PutStats(stats, st) ==
    IF HasActor(stats, st.name)
    THEN [i \in 1..Len(stats) |-> IF stats[i].name = st.name THEN st ELSE stats[i]]
    ELSE Append(stats, st)

\* actor_stats[actor], the defaultdict making the value when the key is new
TouchStats(stats, actor) == IF HasActor(stats, actor) THEN stats ELSE Append(stats, NewStats(actor))

\* counter[kw] += 1 for each kw of kws, from keyword k on
RECURSIVE CountKeywords(_, _, _)
CountKeywords(counter, kws, k) ==
    IF k > Len(kws) THEN counter
    ELSE CountKeywords(DictSet(counter, kws[k],
                               IF HasKey(counter, kws[k]) THEN Lookup(counter, kws[k]) + 1
                               ELSE 1),
                       kws, k + 1)

\* a skip test that lets "Unknown" through
Skipped_OnlyAbsent(entry) == ~Truthy(Get(entry, "threat_actor", NoneVal))

\* an entry the loop skips: `if not actor or actor == "Unknown": continue`
Skipped(entry) ==
    ~Truthy(Get(entry, "threat_actor", NoneVal)) \/ Get(entry, "threat_actor", NoneVal) = Unknown

\* the body of the loop for an entry that is not skipped; ttps is what
\* get_actor_ttps returned if this is the actor's first entry
AnalyzeEntryBody(stats, entry, first_time, ttps, industry_kws, country_kws) ==
    LET actor == entry.threat_actor
        search_context == Get(entry, "search_context", <<>>)
        st0 == StatsOf(TouchStats(stats, actor), actor)
        st1 == [st0 EXCEPT !.total_hits = @ + 1]
        st2 == IF first_time THEN [st1 EXCEPT !.ttps = ttps] ELSE st1
        found_industry_kws == extract_matching_keywords(search_context, industry_kws)
        st3 == IF found_industry_kws # <<>> THEN [st2 EXCEPT !.industry_hits = @ + 1] ELSE st2
        found_country_kws == extract_matching_keywords(search_context, country_kws)
        hit_date == Get(entry, "published_date", NoDate)
        hit_victim == Get(entry, "victim", <<"N", "/", "A">>)
        hit_link == Get(entry, "link", <<>>)
        st4 == IF found_country_kws = <<>> THEN st3
               ELSE [st3 EXCEPT
                       !.region_hits = @ + 1,
                       !.country_profile_hits =
                           IF hit_date # NoDate /\ Truthy(hit_link)
                           THEN Append(@, [date |-> hit_date, victim |-> hit_victim,
                                           link |-> hit_link])
                           ELSE @,
                       !.country_hit_counts = CountKeywords(@, found_country_kws, 1)]
    IN PutStats(TouchStats(stats, actor), st4)

\* a score with the two weights exchanged
Score_WeightsSwapped(st) ==
    st.industry_hits * CountryHitWeight + st.region_hits * IndustryHitWeight

\* stats['score'] of the final loop
Score(st) == st.industry_hits * IndustryHitWeight + st.region_hits * CountryHitWeight

\* the final loop over actor_stats.items()
WithScores(stats) == [i \in 1..Len(stats) |-> [stats[i] EXCEPT !.score = Score(stats[i])]]

-----------------------------------------------------------------------------
(* display_potential_actors *)

TOP_N_ACTORS_TO_SHOW == 10

MAX_RECENT_HITS_TO_SHOW == 3

Min(a, b) == IF a < b THEN a ELSE b

\* s[:n]
Slice(s, n) == SubSeq(s, 1, Min(n, Len(s)))

\* a sort key that leaves total_hits out
RankKey_ScoreOnly(info) == <<info.score, 0>>

\* key=lambda x: (x['score'], x['total_hits'])
RankKey(info) == <<info.score, info.total_hits>>

\* what the function prints: nothing but a notice when there are no statistics or
\* no actor with a positive score, else the top actors in rank order, each with
\* the hits of country_profile_hits it shows
display_potential_actors(stats) ==
    IF stats = <<>> THEN [kind |-> "no statistics", actors |-> <<>>]
    ELSE LET Positive(st) == st.score > 0
             actor_scores == SelectSeq(stats, Positive)
             keyed == [i \in 1..Len(actor_scores) |->
                          [k |-> RankKey(actor_scores[i]), v |-> actor_scores[i]]]
             sorted == SortDescending(keyed)
             shown == Slice(sorted, TOP_N_ACTORS_TO_SHOW)
         IN IF actor_scores = <<>> THEN [kind |-> "no matches", actors |-> <<>>]
            ELSE [kind |-> "ranking",
                  actors |-> [i \in 1..Len(shown) |->
                      [name |-> shown[i].v.name,
                       score |-> shown[i].v.score,
                       industry_hits |-> shown[i].v.industry_hits,
                       region_hits |-> shown[i].v.region_hits,
                       total_hits |-> shown[i].v.total_hits,
                       country_hit_counts |-> shown[i].v.country_hit_counts,
                       ttps |-> shown[i].v.ttps,
                       latest_hits |-> Slice(shown[i].v.country_profile_hits,
                                             MAX_RECENT_HITS_TO_SHOW)]]]

\* nothing printed yet
NoReport == [kind |-> "none", actors |-> <<>>]

-----------------------------------------------------------------------------
(* Inputs of the deduplication runs *)

\* sequences over S of length lo..hi
SeqsOf(S, lo, hi) == UNION {[1..n -> S] : n \in lo..hi}

GuidOne == <<"g", "1">>

DateStrings == {NoneVal} \cup {IsoFormat(d) : d \in 1..MaxDate}

\* feed entries: the guid is empty (no usable id) or g1; two spellings of one title
DedupRssEntries ==
    {[guid |-> g, title |-> t, actor |-> LockBit, published_parsed |-> d,
      description |-> <<"x">>] :
        g \in {<<>>, GuidOne}, t \in {<<"A", "b">>, <<"a", "b">>}, d \in 0..MaxDate}

\* API items: with the id g1, or without an id
DedupApiItems ==
    {[id |-> GuidOne, post_title |-> <<"a", "b">>, group_name |-> LockBit, discovered |-> s] :
        s \in DateStrings}
    \cup {[post_title |-> <<"a", "b">>, group_name |-> LockBit, discovered |-> s] :
        s \in DateStrings}

DedupRssRecords == {NormalizeRss(e) : e \in DedupRssEntries}

DedupApiRecords == {NormalizeApi(i) : i \in DedupApiItems}

-----------------------------------------------------------------------------
(* State *)

\* the values of the variables a run has not reached yet
Untouched ==
    /\ ATTACKCTI_AVAILABLE = TRUE
    /\ attack_client = "client"
    /\ ttp_cache = <<>>
    /\ kb_queries = <<>>
    /\ actor_name = <<>>
    /\ ttps_ret = <<>>
    /\ text = <<>>
    /\ keyword_list = <<>>
    /\ found = <<>>
    /\ all_raw_entries = <<>>
    /\ raw_pos = 0
    /\ combined_entries = <<>>
    /\ deduplicated_list = <<>>
    /\ selected_industry_keywords = <<>>
    /\ selected_country_keywords = <<>>
    /\ entry_pos = 0
    /\ processed_actors = {}
    /\ actor_stats = <<>>
    /\ actor_analysis_results = <<>>
    /\ report = NoReport

\* a run whose two fetches have returned
InitDedup ==
    /\ pc = "combine"
    /\ \E n \in 0..MaxRaw :
         /\ rss_entries \in SeqsOf(DedupRssRecords, 0, n)
         /\ api_entries \in SeqsOf(DedupApiRecords, 0, MaxRaw - n)
    /\ Untouched

-----------------------------------------------------------------------------
(* __main__, step 2: combine and deduplicate *)

\* a run that goes on with no entries
AfterCombine_NoExit(raw) == "dedup"

\* `if not all_raw_entries: print("No data fetched. Exiting."); exit()`
AfterCombine(raw) == IF raw = <<>> THEN "exit" ELSE "dedup"

\* all_raw_entries = rss_entries + api_entries; exit() when there are none
Combine ==
    /\ pc = "combine"
    /\ all_raw_entries' = rss_entries \o api_entries
    /\ combined_entries' = <<>>
    /\ raw_pos' = 0
    /\ pc' = AfterCombine(rss_entries \o api_entries)
    /\ UNCHANGED <<ATTACKCTI_AVAILABLE, attack_client, ttp_cache, kb_queries, actor_name,
                   ttps_ret, text, keyword_list, found, rss_entries, api_entries,
                   deduplicated_list, selected_industry_keywords,
                   selected_country_keywords, entry_pos, processed_actors, actor_stats,
                   actor_analysis_results, report>>

\* one iteration of `for entry in all_raw_entries`
DedupStep ==
    /\ pc = "dedup"
    /\ raw_pos < Len(all_raw_entries)
    /\ \E now \in ClockValues :
         combined_entries' = DedupEntry(combined_entries, all_raw_entries[raw_pos + 1], now)
    /\ raw_pos' = raw_pos + 1
    /\ UNCHANGED <<pc, ATTACKCTI_AVAILABLE, attack_client, ttp_cache, kb_queries, actor_name,
                   ttps_ret, text, keyword_list, found, rss_entries, api_entries,
                   all_raw_entries, deduplicated_list, selected_industry_keywords,
                   selected_country_keywords, entry_pos, processed_actors, actor_stats,
                   actor_analysis_results, report>>

\* deduplicated_list = list(combined_entries.values())
DedupFinish ==
    /\ pc = "dedup"
    /\ raw_pos = Len(all_raw_entries)
    /\ deduplicated_list' = Values(combined_entries)
    /\ pc' = "select"
    /\ UNCHANGED <<ATTACKCTI_AVAILABLE, attack_client, ttp_cache, kb_queries, actor_name,
                   ttps_ret, text, keyword_list, found, rss_entries, api_entries,
                   all_raw_entries, raw_pos, combined_entries, selected_industry_keywords,
                   selected_country_keywords, entry_pos, processed_actors, actor_stats,
                   actor_analysis_results, report>>

NextDedup == Combine \/ DedupStep \/ DedupFinish

SpecDedup == InitDedup /\ [][NextDedup]_vars


-----------------------------------------------------------------------------
(* Properties of the deduplication *)

\* the identity of a normalised record (the clock value is never read: every
\* normalised dict holds the key published_date_iso)
IdentityOf(entry) == Identity(entry, CHOOSE now \in ClockValues : TRUE)

HasDate(entry) == entry.published_date # NoDate

\* the keys of an insertion-ordered dict
Keys(d) == {d[i].key : i \in 1..Len(d)}

\* C1: processing records in arrival order, an incoming record is stored when
\* nothing is stored under its identity; when a record is stored it is replaced
\* only if both have a publishedAt and the incoming one is strictly newer; on
\* equal timestamps, or when either lacks a publishedAt, the stored (first-seen)
\* record stays.  Records under other identities are left alone.
C1_DedupStepRule ==
    [][(pc = "dedup" /\ raw_pos' = raw_pos + 1) =>
         LET incoming == all_raw_entries[raw_pos + 1]
             k == IdentityOf(incoming)
         IN /\ HasKey(combined_entries', k)
            /\ Lookup(combined_entries', k) =
                 IF ~HasKey(combined_entries, k) THEN incoming
                 ELSE IF /\ HasDate(incoming)
                         /\ HasDate(Lookup(combined_entries, k))
                         /\ incoming.published_date
                              > Lookup(combined_entries, k).published_date
                      THEN incoming
                      ELSE Lookup(combined_entries, k)
            /\ Keys(combined_entries') = Keys(combined_entries) \cup {k}
            /\ \A o \in Keys(combined_entries) \ {k} :
                 Lookup(combined_entries', o) = Lookup(combined_entries, o)]_vars

\* C1 witness: the loop is over; under one identity a first record was followed
\* by a different, equally dated one (kept out) and then by a strictly newer one
\* (stored)
C1_Witness ==
    /\ pc = "select"
    /\ \E i, j, k \in 1..Len(all_raw_entries) :
         /\ i < j /\ j < k
         /\ IdentityOf(all_raw_entries[i]) = IdentityOf(all_raw_entries[j])
         /\ IdentityOf(all_raw_entries[i]) = IdentityOf(all_raw_entries[k])
         /\ all_raw_entries[i] # all_raw_entries[j]
         /\ HasDate(all_raw_entries[i])
         /\ all_raw_entries[i].published_date = all_raw_entries[j].published_date
         /\ all_raw_entries[k].published_date > all_raw_entries[i].published_date
         /\ Lookup(combined_entries, IdentityOf(all_raw_entries[i])) = all_raw_entries[k]

\* x was published strictly later than y; a record without a publishedAt counts
\* as published before every dated one
Newer(x, y) == HasDate(x) /\ (HasDate(y) => x.published_date > y.published_date)

\* the first raw entry filed under identity k
FirstSeen(k) ==
    all_raw_entries[CHOOSE i \in 1..Len(all_raw_entries) :
        /\ IdentityOf(all_raw_entries[i]) = k
        /\ \A j \in 1..(i - 1) : IdentityOf(all_raw_entries[j]) # k]

\* C2 as stated: after deduplication, for every identity no input record with
\* that identity has a publishedAt strictly newer than the retained record
C2_RetainedIsMostRecent ==
    pc = "select" =>
        \A i \in 1..Len(combined_entries) : \A j \in 1..Len(all_raw_entries) :
            IdentityOf(all_raw_entries[j]) = combined_entries[i].key
                => ~Newer(all_raw_entries[j], combined_entries[i].entry)

\* C2 amended: after deduplication, for every identity whose first-seen input
\* record has a publishedAt, no input record with that identity is strictly newer
\* than the retained one; when the first-seen record has no publishedAt, that
\* first-seen record is the one retained
C2_RetainedIsMostRecentOfDated ==
    pc = "select" =>
        \A i \in 1..Len(combined_entries) :
            LET k == combined_entries[i].key
                kept == combined_entries[i].entry
            IN IF HasDate(FirstSeen(k))
               THEN \A j \in 1..Len(all_raw_entries) :
                        IdentityOf(all_raw_entries[j]) = k
                            => ~Newer(all_raw_entries[j], kept)
               ELSE kept = FirstSeen(k)

\* C2 witness: the loop is over; one identity came three times, dated, the newest
\* neither first nor last, and the newest is the one retained
C2_Witness ==
    /\ pc = "select"
    /\ \E i, j, k \in 1..Len(all_raw_entries) :
         /\ i < j /\ j < k
         /\ IdentityOf(all_raw_entries[i]) = IdentityOf(all_raw_entries[j])
         /\ IdentityOf(all_raw_entries[i]) = IdentityOf(all_raw_entries[k])
         /\ HasDate(all_raw_entries[i]) /\ HasDate(all_raw_entries[k])
         /\ all_raw_entries[j].published_date > all_raw_entries[i].published_date
         /\ all_raw_entries[j].published_date > all_raw_entries[k].published_date
         /\ Lookup(combined_entries, IdentityOf(all_raw_entries[i])) = all_raw_entries[j]

\* C10: during and after deduplication every key of the deduplicated set is
\* non-empty and no two items have the same key; the deduplicated list holds one
\* record per key, each record's identity being its key
C10_IdentityNonEmptyUnique ==
    /\ \A i \in 1..Len(combined_entries) : Truthy(combined_entries[i].key)
    /\ \A i, j \in 1..Len(combined_entries) :
         combined_entries[i].key = combined_entries[j].key => i = j
    /\ pc = "select" =>
         /\ Len(deduplicated_list) = Len(combined_entries)
         /\ \A i \in 1..Len(deduplicated_list) :
              IdentityOf(deduplicated_list[i]) = combined_entries[i].key
         /\ \A i, j \in 1..Len(deduplicated_list) :
              IdentityOf(deduplicated_list[i]) = IdentityOf(deduplicated_list[j]) => i = j
         /\ {IdentityOf(deduplicated_list[i]) : i \in 1..Len(deduplicated_list)}
              = {IdentityOf(all_raw_entries[j]) : j \in 1..Len(all_raw_entries)}

\* C10 witness: the loop is over; a record without a usable id went in under the
\* composite key, a stored record was replaced, and two identities are held
C10_Witness ==
    /\ pc = "select"
    /\ Len(deduplicated_list) = 2
    /\ Len(all_raw_entries) = 3
    /\ \E i \in 1..Len(deduplicated_list) : ~Truthy(deduplicated_list[i].id)
    /\ \E i \in 1..Len(deduplicated_list) : deduplicated_list[i] = all_raw_entries[3]


-----------------------------------------------------------------------------
(* A process that only looks techniques up *)

\* the import block: the library loaded and the client was built, or not
ImportOutcomes == {<<TRUE, "client">>, <<FALSE, "None">>}

InitTtp ==
    /\ pc = "lookup"
    /\ \E o \in ImportOutcomes : ATTACKCTI_AVAILABLE = o[1] /\ attack_client = o[2]
    /\ ttp_cache = <<>>
    /\ kb_queries = <<>>
    /\ actor_name = <<>>
    /\ ttps_ret = <<>>
    /\ text = <<>>
    /\ keyword_list = <<>>
    /\ found = <<>>
    /\ rss_entries = <<>>
    /\ api_entries = <<>>
    /\ all_raw_entries = <<>>
    /\ raw_pos = 0
    /\ combined_entries = <<>>
    /\ deduplicated_list = <<>>
    /\ selected_industry_keywords = <<>>
    /\ selected_country_keywords = <<>>
    /\ entry_pos = 0
    /\ processed_actors = {}
    /\ actor_stats = <<>>
    /\ actor_analysis_results = <<>>
    /\ report = NoReport

\* one call get_actor_ttps(name); the call log is cut off at MaxQueries
GetActorTtpsCall ==
    /\ pc = "lookup"
    /\ Len(kb_queries) < MaxQueries
    /\ \E name \in CallNames, resp \in KbResponses :
         LET call == get_actor_ttps(name, resp)
         IN /\ actor_name' = name
            /\ ttps_ret' = call.ret
            /\ ttp_cache' = call.cache
            /\ kb_queries' = call.queries
            /\ pc' = IF call.raised THEN "raised" ELSE "lookup"
    /\ UNCHANGED <<ATTACKCTI_AVAILABLE, attack_client, text, keyword_list, found,
                   rss_entries, api_entries, all_raw_entries, raw_pos, combined_entries,
                   deduplicated_list, selected_industry_keywords,
                   selected_country_keywords, entry_pos, processed_actors, actor_stats,
                   actor_analysis_results, report>>

NextTtp == GetActorTtpsCall

SpecTtp == InitTtp /\ [][NextTtp]_vars

\* no two queries of the log are for names equal up to case
NoRepeatedQuery(log) ==
    \A i, j \in 1..Len(log) : Lower(log[i].name) = Lower(log[j].name) => i = j

\* the guard of get_actor_ttps lets the name through to the cache
Looked(name) ==
    ATTACKCTI_AVAILABLE /\ attack_client # "None" /\ Truthy(name) /\ name # Unknown

\* C3: over any sequence of get_actor_ttps calls with the knowledge base
\* available, the capability is queried at most once per distinct lowercased
\* name; a first lookup queries once and caches what it returns (a mapping, or
\* the empty mapping on no-match or failure), and a later lookup of a name equal
\* up to case returns the cached value, queries nothing and leaves the cache alone
C3_QueriedAtMostOnce ==
    [][/\ NoRepeatedQuery(kb_queries')
       /\ Looked(actor_name') =>
            IF HasKey(ttp_cache, Lower(actor_name'))
            THEN /\ kb_queries' = kb_queries
                 /\ ttp_cache' = ttp_cache
                 /\ ttps_ret' = Lookup(ttp_cache, Lower(actor_name'))
            ELSE /\ Len(kb_queries') = Len(kb_queries) + 1
                 /\ SubSeq(kb_queries', 1, Len(kb_queries)) = kb_queries
                 /\ kb_queries'[Len(kb_queries')].name = actor_name'
                 /\ HasKey(ttp_cache', Lower(actor_name'))
                 /\ Lookup(ttp_cache', Lower(actor_name')) = ttps_ret'
                 /\ Keys(ttp_cache') = Keys(ttp_cache) \cup {Lower(actor_name')}]_vars

\* C3 witness: "LockBit" was queried once with a non-empty result, and the last
\* call, for "lockbit", returned that cached result
C3_Witness ==
    /\ pc = "lookup"
    /\ Len(kb_queries) = 1
    /\ kb_queries[1].name = LockBit
    /\ actor_name = LockBitLower
    /\ ttps_ret # <<>>
    /\ HasKey(ttp_cache, LockBitLower)
    /\ ttps_ret = Lookup(ttp_cache, LockBitLower)


-----------------------------------------------------------------------------
(* Inputs of the analysis runs *)

Bank == <<"b", "a", "n", "k">>

Usa == <<"u", "s", "a">>

PostUrl == <<"h", "t", "t", "p">>

ApiItem(n, group, description, discovered, url) ==
    [id |-> <<"i", DigitSeq[n + 1]>>, post_title |-> <<"A", "c", "m", "e">>,
     group_name |-> group, description |-> description, discovered |-> discovered,
     post_url |-> url]

\* API items with distinct ids: LockBit hits in the USA at several dates, without
\* a date and without a link; hits that match one keyword set or none ("causa");
\* a second spelling of the actor; an unknown and an absent actor
AnalysisItems ==
    {ApiItem(1, LockBit, <<"B", "a", "n", "k", " ", "U", "S", "A">>, IsoFormat(1), PostUrl),
     ApiItem(2, LockBit, <<"B", "a", "n", "k", " ", "U", "S", "A">>, IsoFormat(2), PostUrl),
     ApiItem(3, LockBit, <<"i", "n", " ", "U", "S", "A">>, NoneVal, PostUrl),
     ApiItem(4, LockBit, <<"i", "n", " ", "U", "S", "A">>, IsoFormat(3), <<>>),
     ApiItem(5, LockBit, <<"a", " ", "b", "a", "n", "k">>, IsoFormat(1), PostUrl),
     ApiItem(6, LockBit, <<"c", "a", "u", "s", "a">>, IsoFormat(1), PostUrl),
     ApiItem(7, LockBitLower, <<"c", "a", "u", "s", "a">>, IsoFormat(2), PostUrl),
     ApiItem(8, Unknown, <<"B", "a", "n", "k", " ", "U", "S", "A">>, IsoFormat(1), PostUrl),
     ApiItem(9, NoneVal, <<"B", "a", "n", "k", " ", "U", "S", "A">>, IsoFormat(1), PostUrl)}

AnalysisRecords == {NormalizeApi(i) : i \in AnalysisItems}

\* keyword lists get_profile_selection can return
IndustryKeywordLists == {<<Bank>>, <<<<"o", "i", "l">>>>}

CountryKeywordLists == {<<Usa>>, <<<<"u", "k">>, Usa>>}

\* a list of records no two of which are the same record
Distinct(s) == \A i, j \in 1..Len(s) : s[i] = s[j] => i = j

\* the call analyze_actor_targeting(deduplicated_list, ...) of a run
InitAnalyze ==
    /\ pc = "analyze"
    /\ \E o \in ImportOutcomes : ATTACKCTI_AVAILABLE = o[1] /\ attack_client = o[2]
    /\ deduplicated_list \in {s \in SeqsOf(AnalysisRecords, 0, MaxEntries) : Distinct(s)}
    /\ selected_industry_keywords \in IndustryKeywordLists
    /\ selected_country_keywords \in CountryKeywordLists
    /\ ttp_cache = <<>>
    /\ kb_queries = <<>>
    /\ actor_name = <<>>
    /\ ttps_ret = <<>>
    /\ text = <<>>
    /\ keyword_list = <<>>
    /\ found = <<>>
    /\ rss_entries = <<>>
    /\ api_entries = <<>>
    /\ all_raw_entries = <<>>
    /\ raw_pos = 0
    /\ combined_entries = <<>>
    /\ entry_pos = 0
    /\ processed_actors = {}
    /\ actor_stats = <<>>
    /\ actor_analysis_results = <<>>
    /\ report = NoReport

-----------------------------------------------------------------------------
(* __main__, steps 4 and 5: analyse and display *)

\* the head of analyze_actor_targeting: return {} for no entries, else sort them
AnalyzeBegin ==
    /\ pc = "analyze"
    /\ actor_stats' = <<>>
    /\ processed_actors' = {}
    /\ entry_pos' = 0
    /\ IF deduplicated_list = <<>>
       THEN /\ actor_analysis_results' = <<>>
            /\ pc' = "display"
            /\ UNCHANGED deduplicated_list
       ELSE /\ deduplicated_list' = SortEntries(deduplicated_list)
            /\ pc' = "analyze_loop"
            /\ UNCHANGED actor_analysis_results
    /\ UNCHANGED <<ATTACKCTI_AVAILABLE, attack_client, ttp_cache, kb_queries, actor_name,
                   ttps_ret, text, keyword_list, found, rss_entries, api_entries,
                   all_raw_entries, raw_pos, combined_entries, selected_industry_keywords,
                   selected_country_keywords, report>>

\* one iteration of `for entry in entries`, the call of get_actor_ttps included
AnalyzeEntry ==
    /\ pc = "analyze_loop"
    /\ entry_pos < Len(deduplicated_list)
    /\ entry_pos' = entry_pos + 1
    /\ LET entry == deduplicated_list[entry_pos + 1]
       IN IF Skipped(entry)
          THEN UNCHANGED <<pc, actor_stats, processed_actors, ttp_cache, kb_queries,
                           actor_name, ttps_ret>>
          ELSE IF entry.threat_actor \in processed_actors
          THEN /\ actor_stats' = AnalyzeEntryBody(actor_stats, entry, FALSE, <<>>,
                                                  selected_industry_keywords,
                                                  selected_country_keywords)
               /\ UNCHANGED <<pc, processed_actors, ttp_cache, kb_queries, actor_name,
                              ttps_ret>>
          ELSE \E resp \in KbResponses :
                 LET call == get_actor_ttps(entry.threat_actor, resp)
                 IN /\ actor_name' = entry.threat_actor
                    /\ ttps_ret' = call.ret
                    /\ ttp_cache' = call.cache
                    /\ kb_queries' = call.queries
                    /\ IF call.raised
                       THEN /\ pc' = "raised"
                            /\ actor_stats' =
                                 PutStats(TouchStats(actor_stats, entry.threat_actor),
                                          [StatsOf(TouchStats(actor_stats, entry.threat_actor),
                                                   entry.threat_actor)
                                             EXCEPT !.total_hits = @ + 1])
                            /\ UNCHANGED processed_actors
                       ELSE /\ pc' = "analyze_loop"
                            /\ actor_stats' =
                                 AnalyzeEntryBody(actor_stats, entry, TRUE, call.ret,
                                                  selected_industry_keywords,
                                                  selected_country_keywords)
                            /\ processed_actors' = processed_actors \cup {entry.threat_actor}
    /\ UNCHANGED <<ATTACKCTI_AVAILABLE, attack_client, text, keyword_list, found,
                   rss_entries, api_entries, all_raw_entries, raw_pos, combined_entries,
                   deduplicated_list, selected_industry_keywords,
                   selected_country_keywords, actor_analysis_results, report>>

\* the scores are computed and dict(actor_stats) is returned
AnalyzeFinish ==
    /\ pc = "analyze_loop"
    /\ entry_pos = Len(deduplicated_list)
    /\ actor_stats' = WithScores(actor_stats)
    /\ actor_analysis_results' = WithScores(actor_stats)
    /\ pc' = "display"
    /\ UNCHANGED <<ATTACKCTI_AVAILABLE, attack_client, ttp_cache, kb_queries, actor_name,
                   ttps_ret, text, keyword_list, found, rss_entries, api_entries,
                   all_raw_entries, raw_pos, combined_entries, deduplicated_list,
                   selected_industry_keywords, selected_country_keywords, entry_pos,
                   processed_actors>>
    /\ UNCHANGED report

\* display_potential_actors(actor_analysis_results, ...), then "Script finished."
Display ==
    /\ pc = "display"
    /\ report' = display_potential_actors(actor_analysis_results)
    /\ pc' = "done"
    /\ UNCHANGED <<ATTACKCTI_AVAILABLE, attack_client, ttp_cache, kb_queries, actor_name,
                   ttps_ret, text, keyword_list, found, rss_entries, api_entries,
                   all_raw_entries, raw_pos, combined_entries, deduplicated_list,
                   selected_industry_keywords, selected_country_keywords, entry_pos,
                   processed_actors, actor_stats, actor_analysis_results>>

NextAnalyze == AnalyzeBegin \/ AnalyzeEntry \/ AnalyzeFinish \/ Display

SpecAnalyze == InitAnalyze /\ [][NextAnalyze]_vars


-----------------------------------------------------------------------------
(* Properties of the analysis *)

\* a process that only looks techniques up, or one that runs the analysis
InitFaults == InitTtp \/ InitAnalyze

NextFaults == NextTtp \/ NextAnalyze

SpecFaults == InitFaults /\ [][NextFaults]_vars

\* the analysis has returned
Analyzed == pc \in {"display", "done"}

\* the entries attributed to actor a
EntriesOf(a) == {i \in 1..Len(deduplicated_list) : deduplicated_list[i].threat_actor = a}

\* some keyword of kws occurs in t as a whole word, letter case aside
MatchesSome(t, kws) == \E k \in 1..Len(kws) : ReSearchWordBounded(Lower(kws[k]), Lower(t))

\* the knowledge base is unavailable, or a query for a name equal to a up to
\* case has failed
LookupFails(a) ==
    \/ ~ATTACKCTI_AVAILABLE
    \/ attack_client = "None"
    \/ \E i \in 1..Len(kb_queries) :
         kb_queries[i].failed /\ Lower(kb_queries[i].name) = Lower(a)

\* C4: get_actor_ttps never raises; it returns the empty mapping when the
\* capability is unavailable, when the name is empty or "Unknown", and when the
\* query for the name has failed; the analysis then still consumes every record
\* and returns, for each actor whose lookup failed, a profile with all of the
\* actor's records counted and empty techniques
C4_LookupFaultIsolated ==
    /\ pc # "raised"
    /\ (~ATTACKCTI_AVAILABLE \/ attack_client = "None" \/ ~Truthy(actor_name)
          \/ actor_name = Unknown) => ttps_ret = <<>>
    /\ (Truthy(actor_name) /\ LookupFails(actor_name)) => ttps_ret = <<>>
    /\ Analyzed =>
         /\ entry_pos = Len(deduplicated_list)
         /\ \A i \in 1..Len(deduplicated_list) :
              LET a == deduplicated_list[i].threat_actor
              IN (~Skipped(deduplicated_list[i]) /\ LookupFails(a)) =>
                   /\ HasActor(actor_analysis_results, a)
                   /\ StatsOf(actor_analysis_results, a).ttps = <<>>
                   /\ StatsOf(actor_analysis_results, a).total_hits = Cardinality(EntriesOf(a))

\* C4 witness: the analysis is over; the query for the first record's actor
\* failed, two more records of the actor were counted after it, and the actor's
\* profile has no techniques
C4_Witness ==
    /\ pc = "done"
    /\ Len(deduplicated_list) = 3
    /\ Len(kb_queries) = 1
    /\ kb_queries[1].failed
    /\ kb_queries[1].name = deduplicated_list[1].threat_actor
    /\ HasActor(actor_analysis_results, kb_queries[1].name)
    /\ StatsOf(actor_analysis_results, kb_queries[1].name).total_hits = 3
    /\ StatsOf(actor_analysis_results, kb_queries[1].name).ttps = <<>>

\* C5: in the mapping analyze_actor_targeting returns, every actor's score is
\* industryHits*2 + countryHits*3 of its final counts, and every actor a record
\* is attributed to is in the mapping, with score 0 when it matched no keyword
C5_ScoreFormula ==
    Analyzed =>
        /\ \A i \in 1..Len(actor_analysis_results) :
             actor_analysis_results[i].score
                = actor_analysis_results[i].industry_hits * 2
                    + actor_analysis_results[i].region_hits * 3
        /\ \A e \in 1..Len(deduplicated_list) :
             ~Skipped(deduplicated_list[e]) =>
                /\ HasActor(actor_analysis_results, deduplicated_list[e].threat_actor)
                /\ (\A x \in EntriesOf(deduplicated_list[e].threat_actor) :
                      /\ ~MatchesSome(deduplicated_list[x].search_context,
                                      selected_industry_keywords)
                      /\ ~MatchesSome(deduplicated_list[x].search_context,
                                      selected_country_keywords))
                   => StatsOf(actor_analysis_results,
                              deduplicated_list[e].threat_actor).score = 0

\* C5 witness: the analysis has returned an actor with industryHits 2 and
\* countryHits 1, scored 7, and an actor that matched nothing, scored 0
C5_Witness ==
    /\ pc = "done"
    /\ \E i, j \in 1..Len(actor_analysis_results) :
         /\ actor_analysis_results[i].industry_hits = 2
         /\ actor_analysis_results[i].region_hits = 1
         /\ actor_analysis_results[i].score = 7
         /\ actor_analysis_results[j].industry_hits = 0
         /\ actor_analysis_results[j].region_hits = 0
         /\ actor_analysis_results[j].score = 0

\* C6: the analysis skips every record whose actor is absent or "Unknown", so
\* neither is a key of the result; the keys are the other records' actors, each
\* once; an actor's totalHits is the number of records attributed to it, its
\* industryHits the number of those whose searchText matched an industry
\* keyword, its countryHits the number whose searchText matched a country keyword
C6_ActorAttribution ==
    Analyzed =>
        /\ \A i \in 1..Len(actor_analysis_results) :
             /\ actor_analysis_results[i].name # Unknown
             /\ Truthy(actor_analysis_results[i].name)
             /\ EntriesOf(actor_analysis_results[i].name) # {}
             /\ actor_analysis_results[i].total_hits
                  = Cardinality(EntriesOf(actor_analysis_results[i].name))
             /\ actor_analysis_results[i].industry_hits
                  = Cardinality({e \in EntriesOf(actor_analysis_results[i].name) :
                        MatchesSome(deduplicated_list[e].search_context,
                                    selected_industry_keywords)})
             /\ actor_analysis_results[i].region_hits
                  = Cardinality({e \in EntriesOf(actor_analysis_results[i].name) :
                        MatchesSome(deduplicated_list[e].search_context,
                                    selected_country_keywords)})
        /\ \A i, j \in 1..Len(actor_analysis_results) :
             actor_analysis_results[i].name = actor_analysis_results[j].name => i = j
        /\ \A e \in 1..Len(deduplicated_list) :
             ~(deduplicated_list[e].threat_actor \in {Unknown, NoneVal, <<>>})
                => HasActor(actor_analysis_results, deduplicated_list[e].threat_actor)

\* C6 witness: the analysis has returned; a record of "Unknown" and a record
\* without an actor were skipped, and the third record's actor has totalHits 1,
\* with a country match and no industry match
C6_Witness ==
    /\ pc = "done"
    /\ Len(deduplicated_list) = 3
    /\ \E i, j \in 1..3 :
         /\ deduplicated_list[i].threat_actor = Unknown
         /\ deduplicated_list[j].threat_actor = NoneVal
    /\ Len(actor_analysis_results) = 1
    /\ actor_analysis_results[1].total_hits = 1
    /\ actor_analysis_results[1].region_hits = 1
    /\ actor_analysis_results[1].industry_hits = 0


-----------------------------------------------------------------------------
(* extract_matching_keywords on its own *)

TextChars == {"U", "s", "a", "c", " "}

\* keywords as the profiles hold them: lowercase words, or words with a space between
MatchKeywords == {Usa, <<"s", "a">>, <<"a", " ", "c">>}

InitMatch ==
    /\ pc = "match"
    /\ text \in SeqsOf(TextChars, 0, MaxTextLen) \cup {NoneVal}
    /\ keyword_list \in SeqsOf(MatchKeywords, 0, MaxKeywords)
    /\ found = <<>>
    /\ ATTACKCTI_AVAILABLE = TRUE
    /\ attack_client = "client"
    /\ ttp_cache = <<>>
    /\ kb_queries = <<>>
    /\ actor_name = <<>>
    /\ ttps_ret = <<>>
    /\ rss_entries = <<>>
    /\ api_entries = <<>>
    /\ all_raw_entries = <<>>
    /\ raw_pos = 0
    /\ combined_entries = <<>>
    /\ deduplicated_list = <<>>
    /\ selected_industry_keywords = <<>>
    /\ selected_country_keywords = <<>>
    /\ entry_pos = 0
    /\ processed_actors = {}
    /\ actor_stats = <<>>
    /\ actor_analysis_results = <<>>
    /\ report = NoReport

\* found = extract_matching_keywords(text, keyword_list)
MatchCall ==
    /\ pc = "match"
    /\ found' = extract_matching_keywords(text, keyword_list)
    /\ pc' = "matched"
    /\ UNCHANGED <<ATTACKCTI_AVAILABLE, attack_client, ttp_cache, kb_queries, actor_name,
                   ttps_ret, text, keyword_list, rss_entries, api_entries, all_raw_entries,
                   raw_pos, combined_entries, deduplicated_list,
                   selected_industry_keywords, selected_country_keywords, entry_pos,
                   processed_actors, actor_stats, actor_analysis_results, report>>

NextMatch == MatchCall

SpecMatch == InitMatch /\ [][NextMatch]_vars

\* kw, letter case aside, fills t[p .. p + Len(kw) - 1], and the characters next
\* to that stretch, where there are any, are not word characters
WholeWordAt(kw, t, p) ==
    /\ p + Len(kw) - 1 <= Len(t)
    /\ \A j \in 1..Len(kw) : LowerChar(t[p + j - 1]) = LowerChar(kw[j])
    /\ p > 1 => ~IsWordChar(t[p - 1])
    /\ p + Len(kw) <= Len(t) => ~IsWordChar(t[p + Len(kw)])

OccursAsWholeWord(kw, t) == t # NoneVal /\ \E p \in 1..Len(t) : WholeWordAt(kw, t, p)

FirstIndex(x, s) == CHOOSE i \in 1..Len(s) : s[i] = x /\ \A j \in 1..(i - 1) : s[j] # x

-----------------------------------------------------------------------------
(* display_potential_actors on its own *)

ActorNumbered(i) == <<"G", DigitSeq[(i \div 10) + 1], DigitSeq[(i % 10) + 1]>>

\* the final statistics of an actor with the given counts
StatsWith(actor, total, industry, country) ==
    [name |-> actor, total_hits |-> total, industry_hits |-> industry,
     region_hits |-> country, country_profile_hits |-> <<>>,
     country_hit_counts |-> IF country > 0 THEN <<[key |-> Usa, entry |-> country]>> ELSE <<>>,
     score |-> industry * IndustryHitWeight + country * CountryHitWeight,
     ttps |-> <<>>]

\* <<total, industry, country>> of most actors of a run, and of a few of them:
\* no match at all, the same score from more records, a higher score
BaseCounts == <<1, 1, 0>>

VariedCounts == {<<1, 0, 0>>, <<2, 1, 0>>, <<1, 0, 1>>}

\* the call display_potential_actors(actor_analysis_results, ...) of a run
InitDisplay ==
    /\ pc = "display"
    /\ \E n \in 0..MaxActors :
         \E V \in {W \in SUBSET (1..n) : Cardinality(W) <= MaxVaried} :
           \E f \in [V -> VariedCounts] :
             actor_analysis_results =
               [i \in 1..n |->
                  LET c == IF i \in V THEN f[i] ELSE BaseCounts
                  IN StatsWith(ActorNumbered(i), c[1], c[2], c[3])]
    /\ ATTACKCTI_AVAILABLE = TRUE
    /\ attack_client = "client"
    /\ ttp_cache = <<>>
    /\ kb_queries = <<>>
    /\ actor_name = <<>>
    /\ ttps_ret = <<>>
    /\ text = <<>>
    /\ keyword_list = <<>>
    /\ found = <<>>
    /\ rss_entries = <<>>
    /\ api_entries = <<>>
    /\ all_raw_entries = <<>>
    /\ raw_pos = 0
    /\ combined_entries = <<>>
    /\ deduplicated_list = <<>>
    /\ selected_industry_keywords = <<>>
    /\ selected_country_keywords = <<>>
    /\ entry_pos = 0
    /\ processed_actors = {}
    /\ actor_stats = actor_analysis_results
    /\ report = NoReport

NextDisplay == Display

SpecDisplay == InitDisplay /\ [][NextDisplay]_vars

\* the place of an actor in the mapping
PlaceOf(actor) ==
    CHOOSE i \in 1..Len(actor_analysis_results) : actor_analysis_results[i].name = actor

\* x is ranked before y: a higher score, or the same score and more total hits,
\* or both the same and an earlier place in the mapping
RankedBefore(x, y) ==
    \/ x.score > y.score
    \/ x.score = y.score /\ x.total_hits > y.total_hits
    \/ x.score = y.score /\ x.total_hits = y.total_hits /\ PlaceOf(x.name) < PlaceOf(y.name)

\* the actors of the mapping with a positive score
PositiveActors ==
    {i \in 1..Len(actor_analysis_results) : actor_analysis_results[i].score > 0}

\* C7: display_potential_actors lists only actors with score > 0, with the
\* counts of the mapping, in descending order of (score, totalHits), actors equal
\* on both in the order of the mapping; it lists the top 10 of them, or all when
\* there are fewer
C7_ReportRanking ==
    pc = "done" =>
        /\ \A i \in 1..Len(report.actors) :
             /\ report.actors[i].score > 0
             /\ HasActor(actor_analysis_results, report.actors[i].name)
             /\ StatsOf(actor_analysis_results, report.actors[i].name).score
                  = report.actors[i].score
             /\ StatsOf(actor_analysis_results, report.actors[i].name).total_hits
                  = report.actors[i].total_hits
        /\ \A i, j \in 1..Len(report.actors) :
             i < j => RankedBefore(report.actors[i], report.actors[j])
        /\ Len(report.actors) = Min(10, Cardinality(PositiveActors))
        /\ \A p \in PositiveActors :
             (\A i \in 1..Len(report.actors) :
                 report.actors[i].name # actor_analysis_results[p].name)
               => \A i \in 1..Len(report.actors) :
                     RankedBefore(report.actors[i], actor_analysis_results[p])

\* C7 witness: eleven actors with a positive score were ranked and ten are
\* listed; one with a higher score came first, one with the same score as the
\* rest and more total hits second, neither being first or second in the mapping
C7_Witness ==
    /\ pc = "done"
    /\ Cardinality(PositiveActors) = 11
    /\ Len(report.actors) = 10
    /\ report.actors[1].score > report.actors[2].score
    /\ report.actors[2].score = report.actors[3].score
    /\ report.actors[2].total_hits > report.actors[3].total_hits
    /\ report.actors[3].total_hits = report.actors[4].total_hits
    /\ PlaceOf(report.actors[1].name) > 2
    /\ PlaceOf(report.actors[2].name) > 2

-----------------------------------------------------------------------------
(* The whole run *)

\* what the feed can hold: an entry under the guid i1, and one without guid and link
FeedEntries ==
    {[guid |-> <<"i", "1">>, title |-> <<"A", "c", "m", "e">>, actor |-> LockBit,
      published_parsed |-> 2, description |-> <<"B", "a", "n", "k", " ", "U", "S", "A">>,
      link |-> PostUrl],
     [title |-> <<"A", "c", "m", "e">>, actor |-> Unknown, published_parsed |-> NoDate,
      description |-> <<"u", "s", "a">>]}

\* what the API can return
ApiItems ==
    {ApiItem(1, LockBit, <<"B", "a", "n", "k", " ", "U", "S", "A">>, IsoFormat(1), PostUrl),
     ApiItem(5, LockBit, <<"a", " ", "b", "a", "n", "k">>, IsoFormat(1), PostUrl),
     ApiItem(7, LockBitLower, <<"c", "a", "u", "s", "a">>, IsoFormat(2), PostUrl)}

Init ==
    /\ pc = "fetch_rss"
    /\ \E o \in ImportOutcomes : ATTACKCTI_AVAILABLE = o[1] /\ attack_client = o[2]
    /\ rss_entries = <<>>
    /\ api_entries = <<>>
    /\ ttp_cache = <<>>
    /\ kb_queries = <<>>
    /\ actor_name = <<>>
    /\ ttps_ret = <<>>
    /\ text = <<>>
    /\ keyword_list = <<>>
    /\ found = <<>>
    /\ all_raw_entries = <<>>
    /\ raw_pos = 0
    /\ combined_entries = <<>>
    /\ deduplicated_list = <<>>
    /\ selected_industry_keywords = <<>>
    /\ selected_country_keywords = <<>>
    /\ entry_pos = 0
    /\ processed_actors = {}
    /\ actor_stats = <<>>
    /\ actor_analysis_results = <<>>
    /\ report = NoReport

\* rss_entries = fetch_rss_feed(RSS_FEED_URL): the normalised entries, or [] on
\* an HTTP error, an empty feed or an exception
FetchRss ==
    /\ pc = "fetch_rss"
    /\ \E feed \in SeqsOf(FeedEntries, 0, MaxFetched) :
         rss_entries' = [i \in 1..Len(feed) |-> NormalizeRss(feed[i])]
    /\ pc' = "fetch_api"
    /\ UNCHANGED <<ATTACKCTI_AVAILABLE, attack_client, ttp_cache, kb_queries, actor_name,
                   ttps_ret, text, keyword_list, found, api_entries, all_raw_entries,
                   raw_pos, combined_entries, deduplicated_list,
                   selected_industry_keywords, selected_country_keywords, entry_pos,
                   processed_actors, actor_stats, actor_analysis_results, report>>

\* api_entries = fetch_ransomware_live_api(RANSOMWARE_LIVE_API_URL): the
\* normalised items, or [] on a request error or an unexpected response
FetchApi ==
    /\ pc = "fetch_api"
    /\ \E data \in SeqsOf(ApiItems, 0, MaxFetched) :
         api_entries' = [i \in 1..Len(data) |-> NormalizeApi(data[i])]
    /\ pc' = "combine"
    /\ UNCHANGED <<ATTACKCTI_AVAILABLE, attack_client, ttp_cache, kb_queries, actor_name,
                   ttps_ret, text, keyword_list, found, rss_entries, all_raw_entries,
                   raw_pos, combined_entries, deduplicated_list,
                   selected_industry_keywords, selected_country_keywords, entry_pos,
                   processed_actors, actor_stats, actor_analysis_results, report>>

\* the two calls of get_profile_selection
SelectProfile ==
    /\ pc = "select"
    /\ selected_industry_keywords' \in IndustryKeywordLists
    /\ selected_country_keywords' \in CountryKeywordLists
    /\ pc' = "analyze"
    /\ UNCHANGED <<ATTACKCTI_AVAILABLE, attack_client, ttp_cache, kb_queries, actor_name,
                   ttps_ret, text, keyword_list, found, rss_entries, api_entries,
                   all_raw_entries, raw_pos, combined_entries, deduplicated_list,
                   entry_pos, processed_actors, actor_stats, actor_analysis_results,
                   report>>

Next ==
    \/ FetchRss
    \/ FetchApi
    \/ Combine
    \/ DedupStep
    \/ DedupFinish
    \/ SelectProfile
    \/ AnalyzeBegin
    \/ AnalyzeEntry
    \/ AnalyzeFinish
    \/ Display

Spec == Init /\ [][Next]_vars

\* the run is past the point where profile selection starts
PastCombine == pc \in {"select", "analyze", "analyze_loop", "display", "done"}

\* C8: when both sources return empty lists the run halts before profile
\* selection, analysis and rendering: no technique lookup is made, nothing is
\* analysed and no report is produced; the run gets past the combine step only
\* when at least one raw record was fetched
C8_ZeroRecordEarlyExit ==
    /\ (pc \notin {"fetch_rss", "fetch_api"} /\ rss_entries = <<>> /\ api_entries = <<>>) =>
         /\ pc \in {"combine", "exit"}
         /\ kb_queries = <<>>
         /\ ttp_cache = <<>>
         /\ selected_industry_keywords = <<>>
         /\ selected_country_keywords = <<>>
         /\ actor_stats = <<>>
         /\ actor_analysis_results = <<>>
         /\ report = NoReport
    /\ PastCombine => Len(rss_entries) + Len(api_entries) >= 1
    /\ pc = "exit" => (rss_entries = <<>> /\ api_entries = <<>>)

\* C8 witness: both fetches returned nothing and the run has exited
C8_Witness ==
    /\ pc = "exit"
    /\ rss_entries = <<>>
    /\ api_entries = <<>>
    /\ all_raw_entries = <<>>


-----------------------------------------------------------------------------
(* The country hits of one actor *)

InUsa == <<"i", "n", " ", "U", "S", "A">>

\* API items with distinct ids, all of LockBit: hits in the USA at four dates
\* (two of them on the same day), one without a date, one without a link, and
\* a record that matches no country keyword
HitItems ==
    {ApiItem(1, LockBit, InUsa, IsoFormat(1), PostUrl),
     ApiItem(2, LockBit, InUsa, IsoFormat(2), PostUrl),
     ApiItem(3, LockBit, InUsa, IsoFormat(2), PostUrl),
     ApiItem(4, LockBit, InUsa, IsoFormat(3), PostUrl),
     ApiItem(5, LockBit, InUsa, NoneVal, PostUrl),
     ApiItem(6, LockBit, InUsa, IsoFormat(4), <<>>),
     ApiItem(7, LockBit, <<"c", "a", "u", "s", "a">>, IsoFormat(4), PostUrl)}

HitRecords == {NormalizeApi(i) : i \in HitItems}

\* the call analyze_actor_targeting(deduplicated_list, ...) of a run whose
\* records are all of one actor
InitHits ==
    /\ pc = "analyze"
    /\ \E o \in ImportOutcomes : ATTACKCTI_AVAILABLE = o[1] /\ attack_client = o[2]
    /\ deduplicated_list \in {s \in SeqsOf(HitRecords, 0, MaxHitEntries) : Distinct(s)}
    /\ selected_industry_keywords = <<Bank>>
    /\ selected_country_keywords \in CountryKeywordLists
    /\ ttp_cache = <<>>
    /\ kb_queries = <<>>
    /\ actor_name = <<>>
    /\ ttps_ret = <<>>
    /\ text = <<>>
    /\ keyword_list = <<>>
    /\ found = <<>>
    /\ rss_entries = <<>>
    /\ api_entries = <<>>
    /\ all_raw_entries = <<>>
    /\ raw_pos = 0
    /\ combined_entries = <<>>
    /\ entry_pos = 0
    /\ processed_actors = {}
    /\ actor_stats = <<>>
    /\ actor_analysis_results = <<>>
    /\ report = NoReport

SpecHits == InitHits /\ [][NextAnalyze]_vars

\* the (publishedAt, victim, link) of a record
HitOf(entry) == [date |-> entry.published_date, victim |-> entry.victim, link |-> entry.link]

\* the records of actor a that match a country keyword and have both a
\* publishedAt and a non-empty link
RecordedHits(a) ==
    {e \in EntriesOf(a) :
        /\ MatchesSome(deduplicated_list[e].search_context, selected_country_keywords)
        /\ HasDate(deduplicated_list[e])
        /\ Truthy(deduplicated_list[e].link)}

\* C11: for every actor of the result, countryHitDetails holds exactly one
\* (publishedAt, victim, link) entry for each country-matching record of the
\* actor that has a publishedAt and a non-empty link, in non-increasing
\* publishedAt order; the renderer shows the first 3 of them, so no hit it
\* leaves out is newer than one it shows
C11_CountryHitsNewestFirst ==
    /\ Analyzed =>
         \A i \in 1..Len(actor_analysis_results) :
            LET hits == actor_analysis_results[i].country_profile_hits
                recorded == RecordedHits(actor_analysis_results[i].name)
            IN /\ Len(hits) = Cardinality(recorded)
               /\ \A e \in recorded :
                    Cardinality({k \in 1..Len(hits) : hits[k] = HitOf(deduplicated_list[e])})
                      = Cardinality({x \in recorded :
                            HitOf(deduplicated_list[x]) = HitOf(deduplicated_list[e])})
               /\ \A j, k \in 1..Len(hits) : j < k => hits[j].date >= hits[k].date
    /\ pc = "done" =>
         \A r \in 1..Len(report.actors) :
            LET hits == StatsOf(actor_analysis_results, report.actors[r].name).country_profile_hits
                shown == report.actors[r].latest_hits
            IN /\ Len(shown) = Min(3, Len(hits))
               /\ \A j \in 1..Len(shown) : shown[j] = hits[j]
               /\ \A j \in 1..Len(shown) : \A k \in (Len(shown) + 1)..Len(hits) :
                    shown[j].date >= hits[k].date

\* C11 witness: the run is over; four country hits of one actor were recorded,
\* the newest first and the oldest last, and the three newest are shown
C11_Witness ==
    /\ pc = "done"
    /\ Len(report.actors) = 1
    /\ Len(actor_analysis_results[1].country_profile_hits) = 4
    /\ actor_analysis_results[1].country_profile_hits[1].date = 3
    /\ actor_analysis_results[1].country_profile_hits[4].date = 1
    /\ Len(report.actors[1].latest_hits) = 3
    /\ report.actors[1].latest_hits[3].date = 2


-----------------------------------------------------------------------------
(* The key of a record without an id *)

\* C12: a record with no source-provided id is filed under the lowercased
\* victim name joined by "_" to its publication timestamp when it has one, and
\* to a value of the clock when it has none
C12_FallbackIdentity ==
    \A i \in 1..Len(combined_entries) :
        LET entry == combined_entries[i].entry
        IN ~Truthy(entry.id) =>
             IF HasDate(entry)
             THEN combined_entries[i].key
                    = Lower(entry.victim) \o <<"_">> \o IsoFormat(entry.published_date)
             ELSE \E now \in ClockValues :
                    combined_entries[i].key = Lower(entry.victim) \o <<"_">> \o now


====
